---------------------------- MODULE Spec2Model ----------------------------
(***************************************************************************)
(* A model of four fragments of the Paddle repository:                     *)
(*   - the strided view gradient kernels and their registration            *)
(*     (paddle/phi/kernels/stride/view_grad_kernel.cc),                     *)
(*   - the default arguments of the PIR dialect helper API                 *)
(*     (paddle/fluid/pir/dialect/operator/ir/manual_api.h),                 *)
(*   - the test wiring of test/prim/pir_prim/CMakeLists.txt,               *)
(*   - the test wiring of the mkldnn C++ tests (unnamed/part_000).         *)
(* Each fragment has its own specification: Spec (kernels), SpecApi,       *)
(* SpecPrim and SpecMkldnn.  The variables of the other fragments keep     *)
(* their idle value under a fragment's specification.                      *)
(***************************************************************************)
EXTENDS Integers, Sequences, FiniteSets

VARIABLES
    \* --- view_grad_kernel.cc ---
    registry,      \* the kernel registry: a set of registered kernel entries
    regPc,         \* number of static registrars of the translation unit that ran
    kernel,        \* the kernel function that ran last ("none" before any call)
    input,         \* argument `input` of the kernel call (forward input tensor)
    out_grad,      \* argument `out_grad` of the kernel call
    dims,          \* argument `dims` of ViewShapeGradKernel (forward target shape)
    dtype,         \* argument `dtype` of ViewDtypeGradKernel (forward target type)
    input_grad,    \* the output tensor *input_grad
    \* --- manual_api.h ---
    api_call,      \* the last helper call with its arguments after default resolution
    \* --- test/prim/pir_prim/CMakeLists.txt ---
    files,                      \* names of the entries of CMAKE_CURRENT_SOURCE_DIR
    primPc,                     \* position of the configure run in the file
    TEST_PRIM_TRANS_PIR_CASES,  \* the CMake list variable of that name
    py_tests,                   \* the py_test_modules calls made so far, in order
    \* --- unnamed/part_000 (mkldnn tests) ---
    options,                    \* WITH_GPU, WITH_ROCM, WITH_TESTING, WITH_ONNXRUNTIME, WIN32
    mkPc,                       \* position of the configure run in the file
    TEST_MKLDNN_CACHING_DEPS,   \* the CMake list variable of that name
    targets,                    \* test targets defined so far: name -> DEPS list
    onnx_copied                 \* targets copy_onnx has been applied to, in order

viewVars  == <<registry, regPc, kernel, input, out_grad, dims, dtype, input_grad>>
apiVars   == <<api_call>>
primVars  == <<files, primPc, TEST_PRIM_TRANS_PIR_CASES, py_tests>>
mkVars    == <<options, mkPc, TEST_MKLDNN_CACHING_DEPS, targets, onnx_copied>>
vars      == <<viewVars, apiVars, primVars, mkVars>>

Range(s) == {s[i] : i \in DOMAIN s}

(***************************************************************************)
(* Bounds                                                                  *)
(***************************************************************************)
\* largest extent of a tensor dimension
MaxDim == 2
\* largest number of test_*.py files in the pir_prim directory
MaxFiles == 3

(***************************************************************************)
(* Tensors                                                                 *)
(***************************************************************************)
\* shapes of rank 1 and 2
Shapes == {<<a>> : a \in 1..MaxDim} \cup {<<a, b>> : a, b \in 1..MaxDim}

\* phi::DataType values used by the model
DataTypes == {"FLOAT32", "INT32", "INT64"}

\* allocations a tensor may hold
Holders == {"h1", "h2"}

\* DenseTensor: its meta (dims, dtype) and the allocation it holds
Tensors == [dims : Shapes, dtype : DataTypes, holder : Holders]

\* a DenseTensor that was default-constructed and never written
EmptyTensor == [dims |-> <<>>, dtype |-> "UNDEFINED", holder |-> "null"]

\* common::vectorize<int64_t>(ddim): copies the extents of a DDim into a vector
vectorize(ddim) == [i \in 1..Len(ddim) |-> ddim[i]]

\* ViewShapeKernel(dev_ctx, input, dims, out): out views input's allocation
\* with the target shape
ViewShapeKernel(in, target_dims) ==
    [dims |-> target_dims, dtype |-> in.dtype, holder |-> in.holder]

\* ViewDtypeKernel(dev_ctx, input, dtype, out): out views input's allocation
\* with the target data type
ViewDtypeKernel(in, target_dtype) ==
    [dims |-> in.dims, dtype |-> target_dtype, holder |-> in.holder]

\* mutant: the gradient kernel forwards the forward pass's dims
ViewShapeGradKernel_ForwardDims(in, og, ds) ==
    ViewShapeKernel(og, ds)

\* ViewShapeGradKernel(dev_ctx, input, out_grad, dims, input_grad)
ViewShapeGradKernel(in, og, ds) ==
    ViewShapeKernel(og, vectorize(in.dims))

\* mutant: the gradient kernel forwards the forward pass's dtype
ViewDtypeGradKernel_ForwardDtype(in, og, dt) ==
    ViewDtypeKernel(og, dt)

\* ViewDtypeGradKernel(dev_ctx, input, out_grad, dtype, input_grad)
ViewDtypeGradKernel(in, og, dt) ==
    ViewDtypeKernel(og, in.dtype)

(***************************************************************************)
(* Kernel registry                                                         *)
(***************************************************************************)
Backends == {"CPU", "GPU", "XPU", "CUSTOM"}

\* mutant: the two registrations name each other's kernel
Registrations_Swapped ==
    << [name |-> "view_grad_shape", kind |-> "STRIDED", fn |-> "ViewDtypeGradKernel"],
       [name |-> "view_grad_dtype", kind |-> "STRIDED", fn |-> "ViewShapeGradKernel"] >>

\* mutant: the dtype gradient is registered under the default kernel kind
Registrations_WrongKind ==
    << [name |-> "view_grad_shape", kind |-> "STRIDED", fn |-> "ViewShapeGradKernel"],
       [name |-> "view_grad_dtype", kind |-> "ALL_LAYOUT", fn |-> "ViewDtypeGradKernel"] >>

\* the two registrar statements of the translation unit, in source order
Registrations ==
    << [name |-> "view_grad_shape", kind |-> "STRIDED", fn |-> "ViewShapeGradKernel"],
       [name |-> "view_grad_dtype", kind |-> "STRIDED", fn |-> "ViewDtypeGradKernel"] >>

\* PD_REGISTER_KERNEL_FOR_ALL_BACKEND_DTYPE_EXCEPT_CUSTOM(name, kind, fn):
\* one entry per backend other than the custom ones and per data type
RegisterForAllBackendDtypeExceptCustom(r) ==
    {[name |-> r.name, kind |-> r.kind, backend |-> b, dtype |-> t, fn |-> r.fn] :
        b \in Backends \ {"CUSTOM"}, t \in DataTypes}

\* the kernel functions the registry binds to (name, backend, dtype)
SelectKernel(name, backend, t) ==
    {e.fn : e \in {x \in registry : x.name = name /\ x.backend = backend /\ x.dtype = t}}

InitView ==
    /\ registry = {}
    /\ regPc = 0
    /\ kernel = "none"
    /\ input \in Tensors
    /\ out_grad \in Tensors
    /\ dims = <<>>
    /\ dtype = "UNDEFINED"
    /\ input_grad = EmptyTensor

IdleView ==
    /\ registry = {}
    /\ regPc = 0
    /\ kernel = "none"
    /\ input = EmptyTensor
    /\ out_grad = EmptyTensor
    /\ dims = <<>>
    /\ dtype = "UNDEFINED"
    /\ input_grad = EmptyTensor

\* static initialization: the next registrar of the translation unit runs
RegisterKernel ==
    /\ regPc < Len(Registrations)
    /\ registry' = registry \cup RegisterForAllBackendDtypeExceptCustom(Registrations[regPc + 1])
    /\ regPc' = regPc + 1
    /\ UNCHANGED <<kernel, input, out_grad, dims, dtype, input_grad>>
    /\ UNCHANGED <<apiVars, primVars, mkVars>>

\* a call of the kernel registered as view_grad_shape on some backend
CallViewGradShape ==
    /\ regPc = Len(Registrations)
    /\ \E b \in Backends, ds \in Shapes :
          /\ "ViewShapeGradKernel" \in SelectKernel("view_grad_shape", b, out_grad.dtype)
          /\ kernel' = "ViewShapeGradKernel"
          /\ dims' = ds
          /\ dtype' = "UNDEFINED"
          /\ input_grad' = ViewShapeGradKernel(input, out_grad, ds)
    /\ UNCHANGED <<registry, regPc, input, out_grad>>
    /\ UNCHANGED <<apiVars, primVars, mkVars>>

\* a call of the kernel registered as view_grad_dtype on some backend
CallViewGradDtype ==
    /\ regPc = Len(Registrations)
    /\ \E b \in Backends, dt \in DataTypes :
          /\ "ViewDtypeGradKernel" \in SelectKernel("view_grad_dtype", b, out_grad.dtype)
          /\ kernel' = "ViewDtypeGradKernel"
          /\ dims' = <<>>
          /\ dtype' = dt
          /\ input_grad' = ViewDtypeGradKernel(input, out_grad, dt)
    /\ UNCHANGED <<registry, regPc, input, out_grad>>
    /\ UNCHANGED <<apiVars, primVars, mkVars>>

(***************************************************************************)
(* manual_api.h: default arguments of ones, ones_like, zeros, zeros_like   *)
(***************************************************************************)
\* phi::Place values: the default-constructed Place, phi::CPUPlace(), a GPU place
UndefinedPlace == [alloc |-> "UNDEFINED", device |-> 0]
CPUPlace == [alloc |-> "CPU", device |-> 0]
GPUPlace == [alloc |-> "GPU", device |-> 0]
Places == {UndefinedPlace, CPUPlace, GPUPlace}

\* pir::Value operands of the *_like helpers
Values == {<<"x1">>, <<"x2">>}

\* mutant: ones_like and zeros_like declare the defaults of ones and zeros
DefaultArguments_LikeAsShape(fn) ==
    [dtype |-> "FLOAT32", place |-> CPUPlace]

\* the default arguments each declaration gives for dtype and place
DefaultArguments(fn) ==
    CASE fn = "zeros_like" -> [dtype |-> "UNDEFINED", place |-> UndefinedPlace]
      [] fn = "ones"       -> [dtype |-> "FLOAT32", place |-> CPUPlace]
      [] fn = "ones_like"  -> [dtype |-> "UNDEFINED", place |-> UndefinedPlace]
      [] fn = "zeros"      -> [dtype |-> "FLOAT32", place |-> CPUPlace]

\* a call of fn with its first nargs arguments given, out of (x, dtype, place):
\* each trailing argument left out takes the declared default
ResolveCall(fn, nargs, x, dtypeArg, placeArg) ==
    [fn    |-> fn,
     nargs |-> nargs,
     x     |-> x,
     dtype |-> IF nargs >= 2 THEN dtypeArg ELSE DefaultArguments(fn).dtype,
     place |-> IF nargs >= 3 THEN placeArg ELSE DefaultArguments(fn).place]

NoCall == [fn |-> "none", nargs |-> 0, x |-> <<>>, dtype |-> "UNDEFINED",
           place |-> UndefinedPlace]

InitApi == api_call = NoCall
IdleApi == api_call = NoCall

\* some call of helper fn with first argument drawn from xs
Invoke(fn, xs) ==
    \E n \in 1..3, x \in xs, d \in DataTypes \cup {"UNDEFINED"}, p \in Places :
        api_call' = ResolveCall(fn, n, x, d, p)

\* pir::OpResult ones(shape, dtype = FLOAT32, place = CPUPlace())
ones ==
    /\ Invoke("ones", Shapes)
    /\ UNCHANGED <<viewVars, primVars, mkVars>>

\* pir::OpResult zeros(shape, dtype = FLOAT32, place = CPUPlace())
zeros ==
    /\ Invoke("zeros", Shapes)
    /\ UNCHANGED <<viewVars, primVars, mkVars>>

\* pir::OpResult ones_like(x_, dtype = UNDEFINED, place = {})
ones_like ==
    /\ Invoke("ones_like", Values)
    /\ UNCHANGED <<viewVars, primVars, mkVars>>

\* pir::OpResult zeros_like(x, dtype = UNDEFINED, place = {})
zeros_like ==
    /\ Invoke("zeros_like", Values)
    /\ UNCHANGED <<viewVars, primVars, mkVars>>

(***************************************************************************)
(* test/prim/pir_prim/CMakeLists.txt                                       *)
(*                                                                         *)
(* A name is a sequence of pieces whose concatenation is the string; the   *)
(* piece ".py" is the only piece that holds a '.', so the occurrences of   *)
(* the substring ".py" in a name are exactly its ".py" pieces.             *)
(***************************************************************************)
\* pieces a file name's stem is built from
StemPieces == {"prim_jit", "foo", ".py"}

\* stems of one or two pieces
Stems == {<<a>> : a \in StemPieces} \cup {<<a, b>> : a, b \in StemPieces}

\* directory entries that may exist: test_<stem>.py, and two other files
DirEntries ==
    {<<"test_">> \o m \o <<".py">> : m \in Stems}
        \cup {<<"CMakeLists.txt">>, <<"utils", ".py">>}

\* set(TEST_PRIM_PURE_PIR_CASES ...)
TEST_PRIM_PURE_PIR_CASES ==
    << <<"test_", "prim_program">>,
       <<"test_", "prim_simpnet">>,
       <<"test_", "prim_custom_vjp">>,
       <<"test_", "prim_jit">>,
       <<"test_", "pir_prim_flags">>,
       <<"test_", "sink_decomp">>,
       <<"test_", "prim_dynamic">> >>

\* ENVS of the first foreach
PurePirEnvs == {"GLOG_v=1", "FLAGS_enable_pir_api=true", "FLAGS_prim_skip_dynamic=1"}

\* ENVS of the second foreach
TransPirEnvs == {"GLOG_v=1", "FLAGS_enable_pir_in_executor=true"}

\* py_test_modules(${target} MODULES ${target} ENVS envs)
py_test_modules(target, envs) ==
    [target |-> target, modules |-> <<target>>, envs |-> envs]

\* foreach(target ${list}) py_test_modules(...) endforeach(): one call per
\* element of the list, in order
Foreach(list, envs) == [i \in 1..Len(list) |-> py_test_modules(list[i], envs)]

\* the names that match the globbing expression "test_*.py"
Glob(dir) == {n \in dir : Len(n) >= 2 /\ n[1] = "test_" /\ n[Len(n)] = ".py"}

\* the orders in which a set of names can be listed
Listings(S) == {l \in [1..Cardinality(S) -> S] : Range(l) = S}

\* string(REPLACE ".py" "" out "${list}"): every occurrence of ".py" in every
\* element is removed
IsNotPy(piece) == piece /= ".py"
StringReplacePy(list) == [i \in 1..Len(list) |-> SelectSeq(list[i], IsNotPy)]

\* mutant: the pure-PIR cases are not taken out of the globbed list
ListRemovePureCases_Keep(list) ==
    list

\* list(REMOVE_ITEM TEST_PRIM_TRANS_PIR_CASES ${TEST_PRIM_PURE_PIR_CASES}):
\* every instance of every pure-PIR case is removed
IsNotPureCase(name) == name \notin Range(TEST_PRIM_PURE_PIR_CASES)
ListRemovePureCases(list) ==
    SelectSeq(list, IsNotPureCase)

InitPrim ==
    /\ files = {}
    /\ primPc = 0
    /\ TEST_PRIM_TRANS_PIR_CASES = <<>>
    /\ py_tests = <<>>

IdlePrim == InitPrim

\* before the configure run: a file is added to the source directory
AddFile ==
    /\ primPc = 0
    /\ Cardinality(files) < MaxFiles
    /\ \E n \in DirEntries \ files : files' = files \cup {n}
    /\ UNCHANGED <<primPc, TEST_PRIM_TRANS_PIR_CASES, py_tests>>
    /\ UNCHANGED <<viewVars, apiVars, mkVars>>

\* lines 1-19: set(TEST_PRIM_PURE_PIR_CASES ...) and the first foreach
ForeachPurePir ==
    /\ primPc = 0
    /\ py_tests' = py_tests \o Foreach(TEST_PRIM_PURE_PIR_CASES, PurePirEnvs)
    /\ primPc' = 1
    /\ UNCHANGED <<files, TEST_PRIM_TRANS_PIR_CASES>>
    /\ UNCHANGED <<viewVars, apiVars, mkVars>>

\* lines 21-24: file(GLOB TEST_PRIM_TRANS_PIR_CASES RELATIVE ... "test_*.py")
FileGlob ==
    /\ primPc = 1
    /\ \E l \in Listings(Glob(files)) : TEST_PRIM_TRANS_PIR_CASES' = l
    /\ primPc' = 2
    /\ UNCHANGED <<files, py_tests>>
    /\ UNCHANGED <<viewVars, apiVars, mkVars>>

\* lines 25-26: string(REPLACE ".py" "" ...)
StringReplace ==
    /\ primPc = 2
    /\ TEST_PRIM_TRANS_PIR_CASES' = StringReplacePy(TEST_PRIM_TRANS_PIR_CASES)
    /\ primPc' = 3
    /\ UNCHANGED <<files, py_tests>>
    /\ UNCHANGED <<viewVars, apiVars, mkVars>>

\* line 28: list(REMOVE_ITEM ...)
ListRemoveItem ==
    /\ primPc = 3
    /\ TEST_PRIM_TRANS_PIR_CASES' = ListRemovePureCases(TEST_PRIM_TRANS_PIR_CASES)
    /\ primPc' = 4
    /\ UNCHANGED <<files, py_tests>>
    /\ UNCHANGED <<viewVars, apiVars, mkVars>>

\* lines 30-33: the second foreach
ForeachTransPir ==
    /\ primPc = 4
    /\ py_tests' = py_tests \o Foreach(TEST_PRIM_TRANS_PIR_CASES, TransPirEnvs)
    /\ primPc' = 5
    /\ UNCHANGED <<files, TEST_PRIM_TRANS_PIR_CASES>>
    /\ UNCHANGED <<viewVars, apiVars, mkVars>>

(***************************************************************************)
(* unnamed/part_000: the mkldnn C++ tests                                  *)
(***************************************************************************)
OptionNames == {"WITH_GPU", "WITH_ROCM", "WITH_TESTING", "WITH_ONNXRUNTIME", "WIN32"}

\* the cc_test statements of the file, by position
CcTests ==
    [p \in {0, 1, 2, 7, 8} |->
        CASE p = 0 -> [name |-> "test_mkldnn_op_inplace",
                       deps |-> <<"executor", "op_registry", "elementwise_add_op",
                                  "activation_op", "phi", "common", "scope",
                                  "device_context", "enforce", "generated_static_op">>]
          [] p = 1 -> [name |-> "test_mkldnn_cpu_quantize_pass",
                       deps |-> <<"executor", "op_registry", "activation_op",
                                  "conv_activation_mkldnn_fuse_pass",
                                  "cpu_quantize_placement_pass", "cpu_quantize_pass",
                                  "phi", "common", "scope", "device_context">>]
          [] p = 2 -> [name |-> "test_conv_mkldnn_nhwc",
                       deps |-> <<"executor", "op_registry", "depthwise_conv", "tensor",
                                  "phi", "common", "scope", "device_context", "enforce",
                                  "generated_static_op">>]
          [] p = 7 -> [name |-> "test_mkldnn_pool_adaptive_op",
                       deps |-> <<"fleet_executor", "conditional_block_op", "executor",
                                  "op_registry", "generated_static_op", "generated_op",
                                  "phi", "common", "scope", "device_context", "enforce">>]
          [] p = 8 -> [name |-> "test_mkldnn_squeeze",
                       deps |-> <<"fleet_executor", "conditional_block_op", "executor",
                                  "op_registry", "generated_static_op", "generated_op",
                                  "phi", "scope", "device_context", "enforce">>]]

\* set(TEST_MKLDNN_CACHING_DEPS ...): the base dependencies
BaseCachingDeps ==
    <<"op_registry", "elementwise_mul_op", "elementwise_add_op", "activation_op",
      "phi", "common", "scope", "device_context", "enforce", "generated_static_op">>

\* mutant: depthwise_conv is added only when both GPU options are on
NeedsDepthwiseConv_And(opts) ==
    opts["WITH_GPU"] /\ opts["WITH_ROCM"]

\* if(WITH_GPU OR WITH_ROCM)
NeedsDepthwiseConv(opts) ==
    opts["WITH_GPU"] \/ opts["WITH_ROCM"]

\* if(WITH_TESTING)
DefinesOpNhwc(opts) ==
    opts["WITH_TESTING"]

\* if(WITH_ONNXRUNTIME AND WIN32)
CopiesOnnx(opts) ==
    opts["WITH_ONNXRUNTIME"] /\ opts["WIN32"]

\* a test target defined by command `by`
Target(by, name, deps) == [by |-> by, name |-> name, deps |-> deps]

InitMkldnn ==
    /\ options \in [OptionNames -> BOOLEAN]
    /\ mkPc = 0
    /\ TEST_MKLDNN_CACHING_DEPS = <<>>
    /\ targets = {}
    /\ onnx_copied = <<>>

IdleMkldnn ==
    /\ options = [o \in OptionNames |-> FALSE]
    /\ mkPc = 0
    /\ TEST_MKLDNN_CACHING_DEPS = <<>>
    /\ targets = {}
    /\ onnx_copied = <<>>

\* cc_test(name SRCS name.cc DEPS deps) at lines 2, 15, 29, 67 and 82
cc_test ==
    /\ mkPc \in DOMAIN CcTests
    /\ targets' = targets \cup {Target("cc_test", CcTests[mkPc].name, CcTests[mkPc].deps)}
    /\ mkPc' = mkPc + 1
    /\ UNCHANGED <<options, TEST_MKLDNN_CACHING_DEPS, onnx_copied>>
    /\ UNCHANGED <<viewVars, apiVars, primVars>>

\* lines 43-53
SetCachingDeps ==
    /\ mkPc = 3
    /\ TEST_MKLDNN_CACHING_DEPS' = BaseCachingDeps
    /\ mkPc' = 4
    /\ UNCHANGED <<options, targets, onnx_copied>>
    /\ UNCHANGED <<viewVars, apiVars, primVars>>

\* lines 55-57
AppendDepthwiseConv ==
    /\ mkPc = 4
    /\ TEST_MKLDNN_CACHING_DEPS' =
          IF NeedsDepthwiseConv(options)
          THEN TEST_MKLDNN_CACHING_DEPS \o <<"depthwise_conv">>
          ELSE TEST_MKLDNN_CACHING_DEPS
    /\ mkPc' = 5
    /\ UNCHANGED <<options, targets, onnx_copied>>
    /\ UNCHANGED <<viewVars, apiVars, primVars>>

\* lines 58-61
CcTestCaching ==
    /\ mkPc = 5
    /\ targets' = targets \cup
          {Target("cc_test", "test_mkldnn_caching", TEST_MKLDNN_CACHING_DEPS)}
    /\ mkPc' = 6
    /\ UNCHANGED <<options, TEST_MKLDNN_CACHING_DEPS, onnx_copied>>
    /\ UNCHANGED <<viewVars, apiVars, primVars>>

\* lines 63-65
PaddleTestOpNhwc ==
    /\ mkPc = 6
    /\ targets' =
          IF DefinesOpNhwc(options)
          THEN targets \cup {Target("paddle_test", "test_mkldnn_op_nhwc", <<>>)}
          ELSE targets
    /\ mkPc' = 7
    /\ UNCHANGED <<options, TEST_MKLDNN_CACHING_DEPS, onnx_copied>>
    /\ UNCHANGED <<viewVars, apiVars, primVars>>

\* lines 96-100
CopyOnnx ==
    /\ mkPc = 9
    /\ onnx_copied' =
          IF CopiesOnnx(options)
          THEN onnx_copied \o <<"test_mkldnn_op_nhwc">>
          ELSE onnx_copied
    /\ mkPc' = 10
    /\ UNCHANGED <<options, TEST_MKLDNN_CACHING_DEPS, targets>>
    /\ UNCHANGED <<viewVars, apiVars, primVars>>

(***************************************************************************)
(* Specifications                                                          *)
(***************************************************************************)
Init == InitView /\ IdleApi /\ IdlePrim /\ IdleMkldnn
Next == RegisterKernel \/ CallViewGradShape \/ CallViewGradDtype
Spec == Init /\ [][Next]_vars

InitA == IdleView /\ InitApi /\ IdlePrim /\ IdleMkldnn
NextApi == ones \/ zeros \/ ones_like \/ zeros_like
SpecApi == InitA /\ [][NextApi]_vars

InitP == IdleView /\ IdleApi /\ InitPrim /\ IdleMkldnn
NextPrim ==
    \/ AddFile
    \/ ForeachPurePir
    \/ FileGlob
    \/ StringReplace
    \/ ListRemoveItem
    \/ ForeachTransPir
SpecPrim == InitP /\ [][NextPrim]_vars

InitM == IdleView /\ IdleApi /\ IdlePrim /\ InitMkldnn
NextMkldnn ==
    \/ cc_test
    \/ SetCachingDeps
    \/ AppendDepthwiseConv
    \/ CcTestCaching
    \/ PaddleTestOpNhwc
    \/ CopyOnnx
SpecMkldnn == InitM /\ [][NextMkldnn]_vars

(***************************************************************************)
(* Properties                                                              *)
(***************************************************************************)

\* C1: after ViewShapeGradKernel ran, input_grad is what ViewShapeKernel
\* produces from out_grad with input's dims as the target shape, whatever
\* dims was passed; in particular input_grad has the shape of input.
C1_ShapeGradIsViewOfOutGrad ==
    kernel = "ViewShapeGradKernel" =>
        /\ input_grad = ViewShapeKernel(out_grad, input.dims)
        /\ input_grad.dims = input.dims

\* C1 witness: the kernel ran with dims and out_grad's shape both different
\* from input's shape, and input_grad views out_grad's allocation
C1_Witness ==
    /\ kernel = "ViewShapeGradKernel"
    /\ dims /= input.dims
    /\ out_grad.dims /= input.dims
    /\ out_grad.holder /= input.holder
    /\ input_grad.dims = input.dims
    /\ input_grad.holder = out_grad.holder

\* C2: after ViewDtypeGradKernel ran, input_grad is what ViewDtypeKernel
\* produces from out_grad with input's dtype as the target type, whatever
\* dtype was passed; in particular input_grad has the dtype of input.
C2_DtypeGradIsViewOfOutGrad ==
    kernel = "ViewDtypeGradKernel" =>
        /\ input_grad = ViewDtypeKernel(out_grad, input.dtype)
        /\ input_grad.dtype = input.dtype

\* C2 witness: the kernel ran with dtype and out_grad's dtype both different
\* from input's dtype, and input_grad views out_grad's allocation
C2_Witness ==
    /\ kernel = "ViewDtypeGradKernel"
    /\ dtype /= input.dtype
    /\ out_grad.dtype /= input.dtype
    /\ out_grad.holder /= input.holder
    /\ input_grad.dtype = input.dtype
    /\ input_grad.holder = out_grad.holder

\* C3: no entry ever binds one of the two names to the other kernel or to a
\* kind other than STRIDED or to a custom backend; once both registrars ran,
\* view_grad_shape is bound to ViewShapeGradKernel and view_grad_dtype to
\* ViewDtypeGradKernel for every data type on every backend but the custom one.
C3_RegistryBindsGradKernels ==
    /\ \A e \in registry :
          /\ e.kind = "STRIDED"
          /\ e.backend /= "CUSTOM"
          /\ e.name = "view_grad_shape" => e.fn = "ViewShapeGradKernel"
          /\ e.name = "view_grad_dtype" => e.fn = "ViewDtypeGradKernel"
    /\ regPc = 2 =>
          \A b \in Backends \ {"CUSTOM"}, t \in DataTypes :
              /\ SelectKernel("view_grad_shape", b, t) = {"ViewShapeGradKernel"}
              /\ SelectKernel("view_grad_dtype", b, t) = {"ViewDtypeGradKernel"}

\* C3 witness: both registrars ran; a non-custom backend has both kernels,
\* the custom backend has none
C3_Witness ==
    /\ regPc = 2
    /\ SelectKernel("view_grad_shape", "GPU", "INT64") = {"ViewShapeGradKernel"}
    /\ SelectKernel("view_grad_dtype", "XPU", "FLOAT32") = {"ViewDtypeGradKernel"}
    /\ SelectKernel("view_grad_shape", "CUSTOM", "INT64") = {}
    /\ SelectKernel("view_grad_dtype", "CUSTOM", "FLOAT32") = {}

\* C4: a call with only the first argument resolves to dtype FLOAT32 on the
\* CPU place for ones and zeros, and to dtype UNDEFINED with the
\* default-constructed place for ones_like and zeros_like.
C4_DefaultArguments ==
    api_call.nargs = 1 =>
        /\ api_call.fn \in {"ones", "zeros"} =>
              /\ api_call.dtype = "FLOAT32"
              /\ api_call.place = [alloc |-> "CPU", device |-> 0]
        /\ api_call.fn \in {"ones_like", "zeros_like"} =>
              /\ api_call.dtype = "UNDEFINED"
              /\ api_call.place = [alloc |-> "UNDEFINED", device |-> 0]

\* C4 witness: ones_like was called with only a value
C4_Witness ==
    /\ api_call.fn = "ones_like"
    /\ api_call.nargs = 1
    /\ api_call.x \in Values
    /\ api_call.dtype = "UNDEFINED"
    /\ api_call.place.alloc = "UNDEFINED"

\* C5: two successive calls of the same gradient kernel on the same input and
\* out_grad yield the same input_grad, whatever dims or dtype each was given.
C5_TargetArgumentIgnored ==
    [][ (/\ kernel /= "none"
         /\ kernel' = kernel
         /\ input' = input
         /\ out_grad' = out_grad) => input_grad' = input_grad ]_vars

\* C5 witness: a gradient kernel ran with a forward target that differs from
\* what it passes on (dims from input's dims, or dtype from input's dtype)
C5_Witness ==
    \/ kernel = "ViewShapeGradKernel" /\ dims /= input.dims /\ dims /= input_grad.dims
    \/ kernel = "ViewDtypeGradKernel" /\ dtype /= input.dtype /\ dtype /= input_grad.dtype

\* number of py_test_modules calls that registered target t
Registered(t) == Cardinality({i \in DOMAIN py_tests : py_tests[i].target = t})

\* C6: after the configure run, the target of every globbed test_*.py file
\* and every pure-PIR case is registered exactly once, and no target is
\* registered by both loops.
C6_EveryModuleRegisteredOnce ==
    primPc = 5 =>
        /\ \A f \in Glob(files) : Registered(SelectSeq(f, IsNotPy)) = 1
        /\ \A i \in DOMAIN TEST_PRIM_PURE_PIR_CASES :
              Registered(TEST_PRIM_PURE_PIR_CASES[i]) = 1
        /\ \A i, j \in DOMAIN py_tests :
              py_tests[i].target = py_tests[j].target =>
                  py_tests[i].envs = py_tests[j].envs

\* C7: every registered test has GLOG_v=1; a pure-PIR case has exactly the
\* environment {GLOG_v, FLAGS_enable_pir_api, FLAGS_prim_skip_dynamic}, any
\* other target exactly {GLOG_v, FLAGS_enable_pir_in_executor}; no target is
\* registered under both.
C7_OneEnvironmentPerTest ==
    /\ \A i \in DOMAIN py_tests :
          /\ "GLOG_v=1" \in py_tests[i].envs
          /\ py_tests[i].modules = <<py_tests[i].target>>
          /\ IF py_tests[i].target \in
                   { <<"test_", "prim_program">>, <<"test_", "prim_simpnet">>,
                     <<"test_", "prim_custom_vjp">>, <<"test_", "prim_jit">>,
                     <<"test_", "pir_prim_flags">>, <<"test_", "sink_decomp">>,
                     <<"test_", "prim_dynamic">> }
             THEN py_tests[i].envs =
                     {"GLOG_v=1", "FLAGS_enable_pir_api=true", "FLAGS_prim_skip_dynamic=1"}
             ELSE py_tests[i].envs = {"GLOG_v=1", "FLAGS_enable_pir_in_executor=true"}
    /\ \A i, j \in DOMAIN py_tests :
          py_tests[i].target = py_tests[j].target => py_tests[i].envs = py_tests[j].envs

\* C7 witness: the directory holds test_prim_jit.py and test_foo.py; after
\* the run the former is registered under the pure-PIR environment only and
\* the latter under the translated-PIR environment
C7_Witness ==
    /\ primPc = 5
    /\ <<"test_", "prim_jit", ".py">> \in files
    /\ <<"test_", "foo", ".py">> \in files
    /\ Registered(<<"test_", "prim_jit">>) = 1
    /\ \E i \in DOMAIN py_tests :
          /\ py_tests[i].target = <<"test_", "foo">>
          /\ "FLAGS_enable_pir_in_executor=true" \in py_tests[i].envs

\* the DEPS lists test_mkldnn_caching was defined with
CachingDeps == {t.deps : t \in {x \in targets : x.name = "test_mkldnn_caching"}}

\* C8: once test_mkldnn_caching is defined, its DEPS hold depthwise_conv
\* exactly when WITH_GPU or WITH_ROCM is on, and hold the ten base
\* dependencies in every configuration.
C8_CachingDeps ==
    mkPc >= 6 =>
        /\ Cardinality(CachingDeps) = 1
        /\ \A d \in CachingDeps :
              /\ ("depthwise_conv" \in Range(d)) <=>
                     (options["WITH_GPU"] \/ options["WITH_ROCM"])
              /\ {"op_registry", "elementwise_mul_op", "elementwise_add_op",
                  "activation_op", "phi", "common", "scope", "device_context",
                  "enforce", "generated_static_op"} \subseteq Range(d)

\* C8 witness: a ROCm-only build finished configuring and depthwise_conv is
\* among the eleven dependencies
C8_Witness ==
    /\ mkPc = 10
    /\ options["WITH_ROCM"] /\ ~options["WITH_GPU"]
    /\ \E d \in CachingDeps : Len(d) = 11 /\ d[11] = "depthwise_conv"

\* C9: every target copy_onnx was applied to has been defined by paddle_test.
C9_OnnxCopyOfDefinedTarget ==
    \A i \in DOMAIN onnx_copied :
        \E t \in targets : t.name = onnx_copied[i] /\ t.by = "paddle_test"

=============================================================================
